---------------------------- MODULE Spec2Model ----------------------------
(***************************************************************************)
(* Model of the fastapi-opentelemetry bootstrap: tracer.py (the tracer     *)
(* set-up), main.py (the FastAPI service) and run_migration.py (the        *)
(* alembic runner).                                                        *)
(*                                                                         *)
(* One Python process is modelled.  `entry` is the script the interpreter  *)
(* was started on, `pc` is the statement the module loading has reached    *)
(* ("<module>_<line>"), and the statements of initialize_tracer are the    *)
(* steps "init_<line>" with `retTo` holding the statement to continue at.  *)
(* Objects the program creates live in the heaps `providers` and           *)
(* `processors`; references are indices into them (0 is None).             *)
(***************************************************************************)
EXTENDS Naturals, Sequences, FiniteSets

VARIABLES
    entry,            \* "main" or "run_migration": the script being run
    pc,               \* statement reached by the process
    retTo,            \* statement to continue at when initialize_tracer returns
    overridePolicy,   \* whether the tracing API lets a second set_tracer_provider win
    initCalls,        \* number of times initialize_tracer has been entered
    resource,         \* initialize_tracer local: resource
    tracer_provider,  \* initialize_tracer local: tracer_provider (index, 0 = unbound)
    span_processor,   \* initialize_tracer local: span_processor / console_processor
    providers,        \* heap of TracerProvider objects
    processors,       \* heap of BatchSpanProcessor objects
    globalProvider,   \* the provider registered with trace.set_tracer_provider
    app,              \* the FastAPI application object of main.py
    reqs,             \* the GET / requests being served
    tracers,          \* the tracers handed out by get_tracer
    alembicArgs,      \* run_migration local: alembicArgs
    migration         \* outcome of alembic.config.main

vars == <<entry, pc, retTo, overridePolicy, initCalls, resource, tracer_provider,
          span_processor, providers, processors, globalProvider, app, reqs,
          tracers, alembicArgs, migration>>

initLocals == <<resource, tracer_provider, span_processor>>
heap       == <<providers, processors, globalProvider>>
service    == <<app, reqs, tracers>>
migr       == <<alembicArgs, migration>>
fixed      == <<entry, overridePolicy>>

\* Bounds of the model
MaxRequests == 3
MaxTracers  == 2

Requests == 1..MaxRequests

\* tracer.py:10-11
SERVICE_NAME == "fastapi"
OTLP_COLLECTOR_ENDPOINT == "http://localhost:4317"

NoResource == [service_name |-> "unset"]
NoApp      == [created |-> FALSE, instrumented |-> FALSE, routes |-> {}]
NoRequest  == [pc |-> "idle", provider |-> 0, response |-> "none"]

\* Resource.create({"service.name": SERVICE_NAME})
CreateResource == [service_name |-> SERVICE_NAME]

\* TracerProvider(resource=resource)
NewTracerProvider(res) == [resource |-> res, processors |-> <<>>]

\* OTLPSpanExporter(endpoint=f"{OTLP_COLLECTOR_ENDPOINT}")
NewOTLPSpanExporter == [kind |-> "otlp", endpoint |-> OTLP_COLLECTOR_ENDPOINT]

\* ConsoleSpanExporter()
NewConsoleSpanExporter == [kind |-> "console", endpoint |-> "stdout"]

\* BatchSpanProcessor(exporter): `spans` are the finished spans handed to it
NewBatchSpanProcessor(exporter) == [exporter |-> exporter, spans |-> {}]

Init ==
    /\ entry \in {"main", "run_migration"}
    /\ pc = IF entry = "main" THEN "main_1" ELSE "mig_5"
    /\ retTo = "none"
    /\ overridePolicy \in BOOLEAN
    /\ initCalls = 0
    /\ resource = NoResource
    /\ tracer_provider = 0
    /\ span_processor = 0
    /\ providers = <<>>
    /\ processors = <<>>
    /\ globalProvider = 0
    /\ app = NoApp
    /\ reqs = [r \in Requests |-> NoRequest]
    /\ tracers = <<>>
    /\ alembicArgs = <<>>
    /\ migration = "none"

(***************************************************************************)
(* main.py, lines 1-3: the imports.  `from tracer import initialize_tracer`*)
(* runs the body of tracer.py, which has not been imported before.         *)
(***************************************************************************)
MainImports ==
    /\ pc = "main_1"
    /\ pc' = "tracer_1"
    /\ UNCHANGED <<retTo, initCalls, initLocals, heap, service, migr, fixed>>

\* tracer.py, lines 1-15: imports, the two constants, def initialize_tracer
TracerModuleHead ==
    /\ pc = "tracer_1"
    /\ pc' = "tracer_36"
    /\ UNCHANGED <<retTo, initCalls, initLocals, heap, service, migr, fixed>>

\* Entering initialize_tracer from call site `site`, to continue at `next`
CallInitializeTracer(site, next) ==
    /\ pc = site
    /\ pc' = "init_17"
    /\ retTo' = next
    /\ initCalls' = initCalls + 1
    /\ UNCHANGED <<initLocals, heap, service, migr, fixed>>

\* tracer.py, line 36: initialize_tracer() when the module is loaded
TracerModuleInit == CallInitializeTracer("tracer_36", "tracer_40")

\* main.py, line 6: initialize_tracer()
MainInit == CallInitializeTracer("main_6", "main_8")

\* tracer.py, line 17
InitResource ==
    /\ pc = "init_17"
    /\ resource' = CreateResource
    /\ pc' = "init_20"
    /\ UNCHANGED <<retTo, initCalls, tracer_provider, span_processor, heap,
                   service, migr, fixed>>

\* tracer.py, line 20
InitProvider ==
    /\ pc = "init_20"
    /\ providers' = Append(providers, NewTracerProvider(resource))
    /\ tracer_provider' = Len(providers) + 1
    /\ pc' = "init_23"
    /\ UNCHANGED <<retTo, initCalls, resource, span_processor, processors,
                   globalProvider, service, migr, fixed>>

\* tracer_provider.add_span_processor(proc): the provider keeps its processors in
\* the order they were added
AddSpanProcessor(tp, proc) ==
    [providers EXCEPT ![tp].processors = Append(@, proc)]

\* tracer.py, lines 23-24
InitOtlpProcessor ==
    /\ pc = "init_23"
    /\ processors' = Append(processors, NewBatchSpanProcessor(NewOTLPSpanExporter))
    /\ span_processor' = Len(processors) + 1
    /\ pc' = "init_25"
    /\ UNCHANGED <<retTo, initCalls, resource, tracer_provider, providers,
                   globalProvider, service, migr, fixed>>

\* tracer.py, line 25
InitAddOtlp ==
    /\ pc = "init_25"
    /\ providers' = AddSpanProcessor(tracer_provider, span_processor)
    /\ pc' = "init_28"
    /\ UNCHANGED <<retTo, initCalls, initLocals, processors, globalProvider,
                   service, migr, fixed>>

\* tracer.py, line 28
InitConsoleProcessor ==
    /\ pc = "init_28"
    /\ processors' = Append(processors, NewBatchSpanProcessor(NewConsoleSpanExporter))
    /\ span_processor' = Len(processors) + 1
    /\ pc' = "init_29"
    /\ UNCHANGED <<retTo, initCalls, resource, tracer_provider, providers,
                   globalProvider, service, migr, fixed>>

\* A set-up that creates the console processor and never registers it
InitAddConsoleSkipped ==
    /\ pc = "init_29"
    /\ pc' = "init_32"
    /\ UNCHANGED <<retTo, initCalls, initLocals, heap, service, migr, fixed>>

\* tracer.py, line 29
InitAddConsole ==
    /\ pc = "init_29"
    /\ providers' = AddSpanProcessor(tracer_provider, span_processor)
    /\ pc' = "init_32"
    /\ UNCHANGED <<retTo, initCalls, initLocals, processors, globalProvider,
                   service, migr, fixed>>

\* trace.set_tracer_provider(tp): the first provider set is registered; whether a
\* later call replaces it is the tracing API's policy, which the repository does
\* not fix: both outcomes are kept (overridePolicy).
SetTracerProvider(tp) ==
    IF globalProvider = 0 \/ overridePolicy THEN tp ELSE globalProvider

\* tracer.py, line 32, and the return: the locals go out of scope
InitSetGlobal ==
    /\ pc = "init_32"
    /\ globalProvider' = SetTracerProvider(tracer_provider)
    /\ resource' = NoResource
    /\ tracer_provider' = 0
    /\ span_processor' = 0
    /\ pc' = retTo
    /\ retTo' = "none"
    /\ UNCHANGED <<initCalls, providers, processors, service, migr, fixed>>

\* tracer.py, line 40: def get_tracer; the import in main.py, line 3, completes
TracerModuleTail ==
    /\ pc = "tracer_40"
    /\ pc' = "main_6"
    /\ UNCHANGED <<retTo, initCalls, initLocals, heap, service, migr, fixed>>

\* main.py, line 8: app = FastAPI()
MainCreateApp ==
    /\ pc = "main_8"
    /\ app' = [app EXCEPT !.created = TRUE]
    /\ pc' = "main_11"
    /\ UNCHANGED <<retTo, initCalls, initLocals, heap, reqs, tracers, migr, fixed>>

\* main.py, line 11: FastAPIInstrumentor.instrument_app(app)
MainInstrument ==
    /\ pc = "main_11"
    /\ app' = [app EXCEPT !.instrumented = TRUE]
    /\ pc' = "main_14"
    /\ UNCHANGED <<retTo, initCalls, initLocals, heap, reqs, tracers, migr, fixed>>

\* main.py, lines 14-15: @app.get("/") def read_root; the module is loaded
MainRoute ==
    /\ pc = "main_14"
    /\ app' = [app EXCEPT !.routes = @ \cup {"/"}]
    /\ pc' = "serving"
    /\ UNCHANGED <<retTo, initCalls, initLocals, heap, reqs, tracers, migr, fixed>>

\* main.py, line 16: the body of read_root
read_root == [Hello |-> "World"]

\* A GET / arrives: the instrumentation starts a span on the registered provider
RequestStart(r) ==
    /\ pc = "serving"
    /\ app.instrumented
    /\ "/" \in app.routes
    /\ reqs[r].pc = "idle"
    /\ reqs' = [reqs EXCEPT ![r] = [pc |-> "started", provider |-> globalProvider,
                                    response |-> "none"]]
    /\ UNCHANGED <<pc, retTo, initCalls, initLocals, heap, app, tracers, migr, fixed>>

\* main.py, lines 14-16: the handler runs
RequestHandle(r) ==
    /\ reqs[r].pc = "started"
    /\ reqs' = [reqs EXCEPT ![r].pc = "handled", ![r].response = read_root]
    /\ UNCHANGED <<pc, retTo, initCalls, initLocals, heap, app, tracers, migr, fixed>>

\* The processors of provider tp, each given the finished span s (on_end)
OnEnd(tp, s) ==
    [k \in 1..Len(processors) |->
        IF \E i \in 1..Len(providers[tp].processors) : providers[tp].processors[i] = k
        THEN [processors[k] EXCEPT !.spans = @ \cup {s}]
        ELSE processors[k]]

\* The response is sent: the span of the request ends and the provider hands it
\* to every span processor added to it
RequestEnd(r) ==
    /\ reqs[r].pc = "handled"
    /\ reqs' = [reqs EXCEPT ![r].pc = "ended"]
    /\ processors' = OnEnd(reqs[r].provider, r)
    /\ UNCHANGED <<pc, retTo, initCalls, initLocals, providers, globalProvider,
                   app, tracers, migr, fixed>>

\* tracer.py, lines 40-41: get_tracer(), callable once tracer.py is imported
GetTracer ==
    /\ pc \in {"main_6", "main_8", "main_11", "main_14", "serving"}
    /\ Len(tracers) < MaxTracers
    /\ tracers' = Append(tracers, [name |-> SERVICE_NAME, provider |-> globalProvider])
    /\ UNCHANGED <<pc, retTo, initCalls, initLocals, heap, app, reqs, migr, fixed>>

(***************************************************************************)
(* run_migration.py                                                        *)
(***************************************************************************)
\* run_migration.py, lines 5 and 13-14: def run_migration; the script guard calls it
MigModule ==
    /\ pc = "mig_5"
    /\ pc' = "mig_6"
    /\ UNCHANGED <<retTo, initCalls, initLocals, heap, service, migr, fixed>>

\* run_migration.py, lines 6-9
MigArgs ==
    /\ pc = "mig_6"
    /\ alembicArgs' = <<"--raiseerr", "upgrade", "head">>
    /\ pc' = "mig_10"
    /\ UNCHANGED <<retTo, initCalls, initLocals, heap, service, migration, fixed>>

\* run_migration.py, line 10: alembic upgrades to head, or raises (--raiseerr)
MigRun ==
    /\ pc = "mig_10"
    /\ \E outcome \in {"upgraded", "raised"} : migration' = outcome
    /\ pc' = "exit"
    /\ UNCHANGED <<retTo, initCalls, initLocals, heap, service, alembicArgs, fixed>>

Next ==
    \/ MainImports
    \/ TracerModuleHead
    \/ TracerModuleInit
    \/ InitResource
    \/ InitProvider
    \/ InitOtlpProcessor
    \/ InitAddOtlp
    \/ InitConsoleProcessor
    \/ InitAddConsole
    \/ InitSetGlobal
    \/ TracerModuleTail
    \/ MainInit
    \/ MainCreateApp
    \/ MainInstrument
    \/ MainRoute
    \/ \E r \in Requests : RequestStart(r)
    \/ \E r \in Requests : RequestHandle(r)
    \/ \E r \in Requests : RequestEnd(r)
    \/ GetTracer
    \/ MigModule
    \/ MigArgs
    \/ MigRun

Spec == Init /\ [][Next]_vars

(***************************************************************************)
(* Helpers for the properties                                              *)
(***************************************************************************)
\* The providers initialize_tracer has finished setting up
Completed == {p \in 1..Len(providers) : p # tracer_provider}

\* The exporter kinds active on provider p
Variants(p) == {processors[providers[p].processors[i]].exporter.kind :
                    i \in 1..Len(providers[p].processors)}

\* The sinks (processors) that were handed the span of request r
Sinks(r) == {k \in 1..Len(processors) : r \in processors[k].spans}

Ended == {r \in Requests : reqs[r].pc = "ended"}

\* The service has finished start-up (tracer imported, main loaded)
StartedUp == pc = "serving"

(***************************************************************************)
(* C8 (as stated): exactly one exporter variant is active per provider, so *)
(* each finished span is delivered to one sink only.                       *)
(***************************************************************************)
C8_OneVariantOneSink ==
    /\ \A p \in Completed : Cardinality(Variants(p)) = 1
    /\ \A r \in Ended : Cardinality(Sinks(r)) = 1

(***************************************************************************)
(* C8 (amended): every provider initialize_tracer has set up has exactly   *)
(* two span processors, the OTLP exporter's first and the console          *)
(* exporter's second, and every finished span has been handed to exactly   *)
(* those two processors of the provider it was started on.                 *)
(***************************************************************************)
C8_TwoVariantsBothSinks ==
    /\ \A p \in Completed :
          /\ Len(providers[p].processors) = 2
          /\ processors[providers[p].processors[1]].exporter = NewOTLPSpanExporter
          /\ processors[providers[p].processors[2]].exporter = NewConsoleSpanExporter
    /\ \A r \in Ended :
          /\ reqs[r].provider \in Completed
          /\ Sinks(r) = {providers[reqs[r].provider].processors[i] : i \in 1..2}
          /\ Cardinality(Sinks(r)) = 2

\* A request's span has ended and reached the sinks
C8_Witness ==
    \E r \in Ended : reqs[r].response = read_root /\ Sinks(r) # {}

(***************************************************************************)
(* C9: over the start-up of the service (tracer imported, main loaded)     *)
(* initialize_tracer runs one time, exactly one TracerProvider with its    *)
(* two BatchSpanProcessors exists, and it is the registered provider that  *)
(* get_tracer hands out.                                                   *)
(***************************************************************************)
C9_InitializedOnce ==
    StartedUp =>
        /\ initCalls = 1
        /\ Len(providers) = 1
        /\ Len(processors) = 2
        /\ globalProvider = 1
        /\ \A i \in 1..Len(tracers) : tracers[i].provider = 1

=============================================================================
